---- MODULE Spec2Model ----
(***************************************************************************)
(* SearchStore (src/src/layout/menu/list.tsx): the search criteria, the    *)
(* two reactions that relaunch the search, search() and its asynchronous   *)
(* continuation, the result containers, the selection and the group views; *)
(* validate() (src/src/validation.ts); the item map of ListSelection       *)
(* (src/src/list/components/list-selection.tsx); and the search of         *)
(* Autocomplete (src/unnamed/part_000).                                    *)
(*                                                                         *)
(* Optional values (x | undefined) are sequences of length at most one:    *)
(* None is undefined, Some(x) is the value x, Null is null.                *)
(***************************************************************************)
EXTENDS Integers, Sequences, FiniteSets, Bags, TLC

None == <<>>
Some(x) == <<x>>
\* null: a pair, which no Some(x) is.
Null == <<"null", "null">>

\* ------------------------------------------------------------------ bounds
\* At most MaxPending service calls are outstanding at a time.
MaxPending == 2
\* At most MaxBurst calls of the debounced search wait for one delay.
MaxBurst == 2
\* validate() is given lists of at most MaxValidators validators.
MaxValidators == 2
\* The calls of the service that may reject in one behaviour.
MaxRejected == 1

\* The matches on the server, in the order it returns them.
ServerList == <<1, 2>>
MaxItem == Len(ServerList)
Items == 1..MaxItem

\* search(true) is not called once the list holds MaxListLen items, and no
\* answer makes the list longer: room for the matches and one more.
MaxListLen == MaxItem + 1

\* ------------------------------------------------------------- input sets
\* query is a string or undefined.
Queries == {None, Some(""), Some("a"), Some("b")}
GroupingKeys == {None, Some("g")}
FacetSelections == {{}, {<<"f", "v">>}}
SortAscs == {None, Some(TRUE), Some(FALSE)}
SortBys == {None, Some("s")}
Tops == {1, 2}
\* The custom criteria node has one field, "c", of a domain whose validators
\* require a value and accept strings of at most one character.
CritFields == {"c"}
CritValues == {None, Null, Some(""), Some("x"), Some("xx")}
CritValidators ==
    << [type |-> "required", value |-> TRUE],
       [type |-> "string", options |-> Some([minLength |-> None, maxLength |-> Some(1)])] >>

\* The values and the validators given to validate(): a validator of a type
\* that validateProperty does not know among them.
PropertyValues == {None, Null, Some(""), Some("x"), Some("xx")}
Validators ==
    { [type |-> "required", value |-> TRUE],
      [type |-> "required", value |-> FALSE],
      [type |-> "string", options |-> Some([minLength |-> Some(1), maxLength |-> Some(1)])],
      [type |-> "string", options |-> Some([minLength |-> None, maxLength |-> None])],
      [type |-> "unknown"] }
ValidatorLists == UNION {[1..n -> Validators] : n \in 0..MaxValidators}


VARIABLES
    blockSearch,      \* SearchStore.blockSearch
    query,            \* ListStoreBase.query
    groupingKey,      \* SearchStore.groupingKey
    selectedFacets,   \* SearchStore.selectedFacets
    sortAsc,          \* ListStoreBase.sortAsc
    sortBy,           \* ListStoreBase.sortBy
    top,              \* ListStoreBase.top
    criteria,         \* SearchStore.criteria: field |-> value
    debounceCriteria, \* initialQuery.debounceCriteria, fixed by the constructor
    facets,           \* SearchStore.facets
    list,             \* SearchStore.list
    groups,           \* SearchStore.groups
    serverCount,      \* ListStoreBase.serverCount
    pendingCount,     \* ListStoreBase.pendingCount
    selectedList,     \* ListStoreBase.selectedList
    timer,            \* the calls of the debounced search that wait for its delay to run out
    inflight,         \* the bag of the calls of search() suspended at `await this.service(data)`
    called,           \* the call of search() made in the last step, if any: who called, for how many
                      \* debounced calls, how many items were selected, and the request sent, if any
    applied,          \* the response whose continuation ran in the last step, if any, with
                      \* the top of its request and, when the step before applied a
                      \* response too, the top of that one's request
    op,               \* the call of setProperties, clear or toggleAll made in the last step, if any,
                      \* with its argument or what it found: <<"setProperties", props>>,
                      \* <<"clear", currentCount>>, <<"toggleAll", selectedList>>,
                      \* <<"groupToggleAll", groupCode, selectedList>>
    property,         \* the value of the property given to validate()
    validators,       \* the validators given to validate(), if any
    validStat,        \* what validate() returned, once it has
    selItems,         \* ListSelection.items: key |-> selected, for the keys in the map
    selProps,         \* ListSelection.props: the selection hint, the values, and whether the
                      \* values are an observable array
    reconciled,       \* the call of updateItems made in the last step, if any: the hint and the
                      \* values it was given
    isLoading,        \* Autocomplete.isLoading
    acQuery,          \* Autocomplete.query, a sequence of characters
    acValues,         \* Autocomplete.values: key |-> label
    acTimer,          \* the argument of the debounced search that waits for its delay, if any
    acInflight,       \* the bag of the calls of Autocomplete.search() suspended at
                      \* `await this.props.querySearcher(...)`, each with the query it sent
    acOp              \* what Autocomplete.search() did in the last step, if it ran:
                      \* <<"search", text>> for a call, <<"resolved", query, result>> for
                      \* the continuation after the await

criteriaVars == <<blockSearch, query, groupingKey, selectedFacets, sortAsc, sortBy, top, criteria, debounceCriteria>>
resultVars == <<facets, list, groups, serverCount>>
storeVars == <<criteriaVars, resultVars, pendingCount, selectedList, timer, inflight, called, applied, op>>
validationVars == <<property, validators, validStat>>
selectionVars == <<selItems, selProps, reconciled>>
autocompleteVars == <<isLoading, acQuery, acValues, acTimer, acInflight, acOp>>
componentVars == <<selectionVars, autocompleteVars>>
vars == <<storeVars, validationVars, componentVars>>

\* ------------------------------------------------------------- validation
\* stringValidator(text, options): the length is within the optional bounds.
StringValidator(text, options) ==
    IF options = None THEN TRUE
    ELSE LET minLength == IF options[1].minLength = None THEN 0 ELSE options[1].minLength[1]
             isMinLength == Len(text) >= minLength
             isMaxLength == IF options[1].maxLength # None THEN Len(text) <= options[1].maxLength[1] ELSE TRUE
         IN  isMinLength /\ isMaxLength

\* validateProperty(property, validator): Some(message) when the validator
\* fails, None when it passes or when its type is not a known one.
ValidateProperty(value, validator) ==
    LET isValid ==
            CASE validator.type = "required" ->
                    Some(IF validator.value = TRUE
                         THEN value # Null /\ value # None /\ value # Some("")
                         ELSE TRUE)
              [] validator.type = "string" ->
                    Some(StringValidator(IF value = None \/ value = Null THEN "" ELSE value[1], validator.options))
              [] OTHER -> None
    IN  IF isValid = Some(FALSE) THEN Some("domain.validation." \o validator.type) ELSE None

RECURSIVE ValidateErrors(_, _)
ValidateErrors(value, vs) ==
    IF vs = <<>> THEN <<>>
    ELSE LET res == ValidateProperty(value, Head(vs))
         IN  (IF res # None THEN <<res[1]>> ELSE <<>>) \o ValidateErrors(value, Tail(vs))

\* validate() that stops at the first validator that fails.
ValidateFirstError(value, vs) ==
    LET all == IF vs # None THEN ValidateErrors(value, vs[1]) ELSE <<>>
        errors == IF all = <<>> THEN all ELSE <<Head(all)>>
    IN  [value |-> value, isValid |-> (0 = Len(errors)), errors |-> errors]

\* validate(property, validators), the validators vs a list or undefined
Validate(value, vs) ==
    LET errors == IF vs # None THEN ValidateErrors(value, vs[1]) ELSE <<>>
    IN  [value |-> value, isValid |-> (0 = Len(errors)), errors |-> errors]

\* The options of a string validator once stringValidator has run on them:
\* a minLength that was undefined or 0 is 0.
StringOptionsAfter(options) ==
    IF options = None THEN options
    ELSE Some([options[1] EXCEPT !.minLength = IF @ = None THEN Some(0) ELSE @])

\* The validators once validate() has run each of them.
ValidatorsAfter(vs) ==
    [i \in DOMAIN vs |->
        IF vs[i].type = "string"
        THEN [vs[i] EXCEPT !.options = StringOptionsAfter(@)]
        ELSE vs[i]]

\* The application calls validate(property, validators).
CallValidate ==
    /\ validStat' = Some(Validate(property, validators))
    /\ validators' = IF validators = None THEN None ELSE Some(ValidatorsAfter(validators[1]))
    /\ UNCHANGED <<property, storeVars, componentVars>>

\* ------------------------------------------------------- computed values
\* criteriaErrors that validates null and undefined too.
CriteriaErrorsOfAllValues(crit) ==
    [key \in DOMAIN crit |-> Len(Validate(crit[key], Some(CritValidators)).errors) > 0]

\* criteriaErrors: field |-> the field's value fails its domain's validator.
CriteriaErrors(crit) ==
    [key \in DOMAIN crit |->
        IF crit[key] # None /\ crit[key] # Null /\ Len(Validate(crit[key], Some(CritValidators)).errors) > 0
        THEN TRUE
        ELSE FALSE]

\* flatCriteria that keeps the fields in error.
FlatCriteriaWithErrors(crit) ==
    LET kept == {key \in DOMAIN crit : crit[key] # Some("") /\ crit[key] # None}
    IN  [key \in kept |-> crit[key]]

\* flatCriteria: the plain values (a string as Some(string), null as Null),
\* less the fields in error, less the fields that are "" or undefined.
FlatCriteria(crit) ==
    LET errors == CriteriaErrors(crit)
        kept == {key \in DOMAIN crit : ~errors[key] /\ crit[key] # Some("") /\ crit[key] # None}
    IN  [key \in kept |-> crit[key]]

RECURSIVE Flatten(_)
Flatten(gs) ==
    IF gs = <<>> THEN <<>> ELSE Head(gs).list \o Flatten(Tail(gs))

\* flatResultList
FlatResultList(lst, grps) ==
    IF Len(grps) # 0 THEN Flatten(grps) ELSE lst

\* currentCount
CurrentCount(lst, grps) == Len(FlatResultList(lst, grps))

Range(s) == {s[i] : i \in DOMAIN s}

\* selectedItems
SelectedItems(sel) == Range(sel)

\* ---------------------------------------------------------------- search
\* A normalisation that lets the empty string through.
NormQueryUndefinedOnly(q) == IF q = None THEN "*" ELSE q[1]

\* query normalised as search() does before building the request: "*" for
\* undefined and for the empty string.
NormQuery(q) == IF q = None \/ q = Some("") THEN "*" ELSE q[1]

\* sortDesc that copies sortAsc instead of negating it.
SortDescSame(sa) == IF sa = None THEN FALSE ELSE sa[1]

\* sortDesc: false when sortAsc is undefined, its negation otherwise.
SortDesc(sa) == IF sa = None THEN FALSE ELSE ~sa[1]

\* skip: the length of the list when scrolling, 0 otherwise.
Skip(isScroll, lst) == IF isScroll /\ Len(lst) # 0 THEN Len(lst) ELSE 0

\* The `data` object of search().
BuildData(isScroll, q, sf, gk, sb, sa, lst, tp, flat) ==
    [criteria |-> ("query" :> NormQuery(q)) @@ flat,
     facets |-> sf,
     group |-> IF gk = None THEN "" ELSE gk[1],
     skip |-> Skip(isScroll, lst),
     sortDesc |-> SortDesc(sa),
     sortFieldName |-> sb,
     top |-> tp]

\* search() is not called.
NoSearch ==
    /\ called' = None
    /\ UNCHANGED <<pendingCount, selectedList, inflight>>

\* search() that does not look at blockSearch.
DoSearchUnblocked(by, isScroll) ==
    /\ BagCardinality(inflight) < MaxPending
    /\ called' = Some([by |-> by, isScroll |-> isScroll, calls |-> IF by = "debounce" THEN timer ELSE 0,
                       selected |-> Len(selectedList),
                       data |-> Some(BuildData(isScroll, query', selectedFacets', groupingKey', sortBy',
                                               sortAsc', list, top', FlatCriteria(criteria')))])
    /\ pendingCount' = pendingCount + 1
    /\ selectedList' = <<>>
    /\ inflight' = inflight (+) SetToBag({[isScroll |-> isScroll, skip |-> Skip(isScroll, list), top |-> top',
                                             held |-> IF isScroll THEN Some(list) ELSE None]})

\* search() that leaves the selection as it is.
DoSearchKeepSelection(by, isScroll) ==
    IF blockSearch'
    THEN /\ called' = Some([by |-> by, isScroll |-> isScroll, calls |-> IF by = "debounce" THEN timer ELSE 0,
                            selected |-> Len(selectedList), data |-> None])
         /\ UNCHANGED <<pendingCount, selectedList, inflight>>
    ELSE /\ BagCardinality(inflight) < MaxPending
         /\ called' = Some([by |-> by, isScroll |-> isScroll, calls |-> IF by = "debounce" THEN timer ELSE 0,
                            selected |-> Len(selectedList),
                            data |-> Some(BuildData(isScroll, query', selectedFacets', groupingKey', sortBy',
                                                    sortAsc', list, top', FlatCriteria(criteria')))])
         /\ pendingCount' = pendingCount + 1
         /\ selectedList' = selectedList
         /\ inflight' = inflight (+) SetToBag({[isScroll |-> isScroll, skip |-> Skip(isScroll, list), top |-> top',
                                                  held |-> IF isScroll THEN Some(list) ELSE None]})

\* search(isScroll) up to its `await`, called by `by` once the criteria have
\* taken their new (primed) values.
DoSearch(by, isScroll) ==
    IF blockSearch'
    THEN /\ called' = Some([by |-> by, isScroll |-> isScroll, calls |-> IF by = "debounce" THEN timer ELSE 0,
                            selected |-> Len(selectedList), data |-> None])
         /\ UNCHANGED <<pendingCount, selectedList, inflight>>
    ELSE /\ BagCardinality(inflight) < MaxPending
         /\ called' = Some([by |-> by, isScroll |-> isScroll, calls |-> IF by = "debounce" THEN timer ELSE 0,
                            selected |-> Len(selectedList),
                            data |-> Some(BuildData(isScroll, query', selectedFacets', groupingKey', sortBy',
                                                    sortAsc', list, top', FlatCriteria(criteria')))])
         /\ pendingCount' = pendingCount + 1
         /\ selectedList' = <<>>
         /\ inflight' = inflight (+) SetToBag({[isScroll |-> isScroll, skip |-> Skip(isScroll, list), top |-> top',
                                                  held |-> IF isScroll THEN Some(list) ELSE None]})

\* The first reaction without sortBy among its tracked values.
ImmediateTrackedNoSortBy(bs, gk, sf, crit, sa, sb) ==
    <<bs, gk, sf, IF ~debounceCriteria THEN Some(FlatCriteria(crit)) ELSE None, sa>>

\* The first reaction: its tracked values.
ImmediateTracked(bs, gk, sf, crit, sa, sb) ==
    <<bs, gk, sf, IF ~debounceCriteria THEN Some(FlatCriteria(crit)) ELSE None, sa, sb>>

\* The second reaction: its tracked values.
DebouncedTracked(crit, q) ==
    <<IF debounceCriteria THEN Some(FlatCriteria(crit)) ELSE None, q>>

\* Both reactions run once the criteria have taken their new values;
\* `fresh` says that selectedFacets was assigned a new object.
React(fresh) ==
    /\ IF \/ fresh
          \/ ImmediateTracked(blockSearch', groupingKey', selectedFacets', criteria', sortAsc', sortBy')
               # ImmediateTracked(blockSearch, groupingKey, selectedFacets, criteria, sortAsc, sortBy)
       THEN DoSearch("reaction", FALSE)
       ELSE NoSearch
    /\ IF DebouncedTracked(criteria', query') # DebouncedTracked(criteria, query)
       THEN timer < MaxBurst /\ timer' = timer + 1
       ELSE timer' = timer
    /\ applied' = None
    /\ UNCHANGED <<validationVars, componentVars>>
    /\ UNCHANGED resultVars

\* The fields the store inherits from the list store, as a new store has
\* them: no query, no sort, pages of one item, nothing counted or selected.
InitBase ==
    /\ query = Some("")
    /\ sortAsc = None
    /\ sortBy = None
    /\ top = 1
    /\ serverCount = 0
    /\ pendingCount = 0
    /\ selectedList = <<>>

\* The store once its constructor has run, given no initial criteria and
\* either value of debounceCriteria: the reactions have not run yet.
InitStore ==
    /\ InitBase
    /\ blockSearch = FALSE
    /\ groupingKey = None
    /\ selectedFacets = {}
    /\ criteria = [f \in CritFields |-> None]
    /\ debounceCriteria \in BOOLEAN
    /\ facets = <<>>
    /\ list = <<>>
    /\ groups = <<>>
    /\ timer = 0
    /\ inflight = EmptyBag
    /\ called = None
    /\ applied = None
    /\ op = None

\* A ListSelection mounted without values and an Autocomplete nobody typed in.
InitComponents ==
    /\ selItems = <<>>
    /\ selProps = [selectionStatus |-> None, values |-> None, observable |-> FALSE]
    /\ reconciled = None
    /\ isLoading = FALSE
    /\ acQuery = <<>>
    /\ acValues = <<>>
    /\ acTimer = None
    /\ acInflight = EmptyBag
    /\ acOp = None

\* A new store, and no call of validate() by the application.
Init ==
    /\ InitStore
    /\ property = None
    /\ validators = None
    /\ validStat = None
    /\ InitComponents

\* ------------------------------------------------- assignments of criteria
\* store.blockSearch = v
SetBlockSearch(v) ==
    /\ v # blockSearch
    /\ blockSearch' = v
    /\ UNCHANGED <<query, groupingKey, selectedFacets, sortAsc, sortBy, top, criteria, debounceCriteria>>
    /\ React(FALSE)
    /\ op' = None

\* store.query = v
SetQuery(v) ==
    /\ v # query
    /\ query' = v
    /\ UNCHANGED <<blockSearch, groupingKey, selectedFacets, sortAsc, sortBy, top, criteria, debounceCriteria>>
    /\ React(FALSE)
    /\ op' = None

\* store.groupingKey = v
SetGroupingKey(v) ==
    /\ v # groupingKey
    /\ groupingKey' = v
    /\ UNCHANGED <<blockSearch, query, selectedFacets, sortAsc, sortBy, top, criteria, debounceCriteria>>
    /\ React(FALSE)
    /\ op' = None

\* store.selectedFacets = v, v a plain object: the observable made of it is
\* a new one, equal or not to the one it replaces.
SetSelectedFacets(v) ==
    /\ selectedFacets' = v
    /\ UNCHANGED <<blockSearch, query, groupingKey, sortAsc, sortBy, top, criteria, debounceCriteria>>
    /\ React(TRUE)
    /\ op' = None

\* store.sortAsc = v
SetSortAsc(v) ==
    /\ v # sortAsc
    /\ sortAsc' = v
    /\ UNCHANGED <<blockSearch, query, groupingKey, selectedFacets, sortBy, top, criteria, debounceCriteria>>
    /\ React(FALSE)
    /\ op' = None

\* store.sortBy = v
SetSortBy(v) ==
    /\ v # sortBy
    /\ sortBy' = v
    /\ UNCHANGED <<blockSearch, query, groupingKey, selectedFacets, sortAsc, top, criteria, debounceCriteria>>
    /\ React(FALSE)
    /\ op' = None

\* store.top = v
SetTop(v) ==
    /\ v # top
    /\ top' = v
    /\ UNCHANGED <<blockSearch, query, groupingKey, selectedFacets, sortAsc, sortBy, criteria, debounceCriteria>>
    /\ React(FALSE)
    /\ op' = None

\* store.criteria[f].value = v
SetCriteria(f, v) ==
    /\ v # criteria[f]
    /\ criteria' = [criteria EXCEPT ![f] = v]
    /\ UNCHANGED <<blockSearch, query, groupingKey, selectedFacets, sortAsc, sortBy, top, debounceCriteria>>
    /\ React(FALSE)
    /\ op' = None

\* The keys of SearchProperties.
PropKeys == {"query", "groupingKey", "selectedFacets", "sortAsc", "sortBy", "top"}

\* The key sets of the objects given to setProperties: no key, one key, or a
\* key that is taken when present with a key that is taken when truthy.
PropKeySets ==
    {{}} \cup {{k} : k \in PropKeys} \cup {{"sortBy", "query"}, {"groupingKey", "top"}}

\* The values a key of props may hold; the value of an absent key reads as
\* undefined.
PropQueries == {Some(""), Some("a")}
PropFacets == {None, Some({}), Some({<<"f", "v">>})}
PropTops == {Some(0), Some(2)}

\* The objects with the keys `has`.
PropsOf(has) ==
    [has : {has},
     query : IF "query" \in has THEN PropQueries ELSE {None},
     groupingKey : IF "groupingKey" \in has THEN GroupingKeys ELSE {None},
     selectedFacets : IF "selectedFacets" \in has THEN PropFacets ELSE {None},
     sortAsc : IF "sortAsc" \in has THEN SortAscs ELSE {None},
     sortBy : IF "sortBy" \in has THEN SortBys ELSE {None},
     top : IF "top" \in has THEN PropTops ELSE {None}]

\* setProperties that takes sortAsc only when it is truthy.
SetPropertiesTruthySortAsc(props) ==
    /\ groupingKey' = IF "groupingKey" \in props.has THEN props.groupingKey ELSE groupingKey
    /\ selectedFacets' = IF props.selectedFacets # None THEN props.selectedFacets[1] ELSE selectedFacets
    /\ sortAsc' = IF props.sortAsc = Some(TRUE) THEN props.sortAsc ELSE sortAsc
    /\ sortBy' = IF "sortBy" \in props.has THEN props.sortBy ELSE sortBy
    /\ query' = IF props.query # None /\ props.query # Some("") THEN props.query ELSE query
    /\ top' = IF props.top # None /\ props.top # Some(0) THEN props.top[1] ELSE top
    /\ UNCHANGED <<blockSearch, criteria, debounceCriteria>>
    /\ React(props.selectedFacets # None)
    /\ op' = <<"setProperties", props>>

\* setProperties that takes groupingKey and sortBy only when they are defined.
SetPropertiesDefinedKeys(props) ==
    /\ groupingKey' = IF props.groupingKey # None THEN props.groupingKey ELSE groupingKey
    /\ selectedFacets' = IF props.selectedFacets # None THEN props.selectedFacets[1] ELSE selectedFacets
    /\ sortAsc' = IF props.sortAsc # None THEN props.sortAsc ELSE sortAsc
    /\ sortBy' = IF props.sortBy # None THEN props.sortBy ELSE sortBy
    /\ query' = IF props.query # None /\ props.query # Some("") THEN props.query ELSE query
    /\ top' = IF props.top # None /\ props.top # Some(0) THEN props.top[1] ELSE top
    /\ UNCHANGED <<blockSearch, criteria, debounceCriteria>>
    /\ React(props.selectedFacets # None)
    /\ op' = <<"setProperties", props>>

\* setProperties(props), an action: the reactions run once it has returned.
\* An object is truthy, empty or not; the object given as selectedFacets
\* becomes a new observable, the one kept is the same one.
SetProperties(props) ==
    /\ groupingKey' = IF "groupingKey" \in props.has THEN props.groupingKey ELSE groupingKey
    /\ selectedFacets' = IF props.selectedFacets # None THEN props.selectedFacets[1] ELSE selectedFacets
    /\ sortAsc' = IF props.sortAsc # None THEN props.sortAsc ELSE sortAsc
    /\ sortBy' = IF "sortBy" \in props.has THEN props.sortBy ELSE sortBy
    /\ query' = IF props.query # None /\ props.query # Some("") THEN props.query ELSE query
    /\ top' = IF props.top # None /\ props.top # Some(0) THEN props.top[1] ELSE top
    /\ UNCHANGED <<blockSearch, criteria, debounceCriteria>>
    /\ React(props.selectedFacets # None)
    /\ op' = <<"setProperties", props>>

\* ------------------------------------------------------ search and answer
\* A call of store.search(isScroll) by the application.
Search(isScroll) ==
    /\ isScroll => Len(list) < MaxListLen
    /\ UNCHANGED criteriaVars
    /\ DoSearch("direct", isScroll)
    /\ applied' = None
    /\ UNCHANGED <<validationVars, componentVars>>
    /\ op' = None
    /\ UNCHANGED <<resultVars, timer>>

\* A debounced search that runs and leaves its calls waiting.
DebounceFireKeepsTimer ==
    /\ timer > 0
    /\ timer' = timer
    /\ UNCHANGED criteriaVars
    /\ DoSearch("debounce", FALSE)
    /\ applied' = None
    /\ UNCHANGED <<validationVars, componentVars>>
    /\ op' = None
    /\ UNCHANGED resultVars

\* The delay of the debounced reaction runs out: its effect calls search().
DebounceFire ==
    /\ timer > 0
    /\ timer' = 0
    /\ UNCHANGED criteriaVars
    /\ DoSearch("debounce", FALSE)
    /\ applied' = None
    /\ UNCHANGED <<validationVars, componentVars>>
    /\ op' = None
    /\ UNCHANGED resultVars

\* A continuation that puts the store's list before every response's list.
MergedListAlways(isScroll, lst, response) ==
    IF response.list # None
    THEN Some(lst \o response.list[1])
    ELSE response.list

\* response.list as the continuation of search() leaves it: when scrolling
\* and the response has a list, the store's list goes before it.
MergedList(isScroll, lst, response) ==
    IF isScroll /\ response.list # None
    THEN Some(lst \o response.list[1])
    ELSE response.list

OrEmpty(o) == IF o = None THEN <<>> ELSE o[1]

\* A continuation that does not decrement pendingCount.
ResolveNoDecrement(call, response) ==
    /\ BagIn(call, inflight)
    /\ Len(OrEmpty(MergedList(call.isScroll, list, response))) <= MaxListLen
    /\ pendingCount' = pendingCount
    /\ facets' = response.facets
    /\ list' = OrEmpty(MergedList(call.isScroll, list, response))
    /\ groups' = OrEmpty(response.groups)
    /\ serverCount' = response.totalCount
    /\ inflight' = inflight (-) SetToBag({call})
    /\ called' = None
    /\ applied' = Some([isScroll |-> call.isScroll, held |-> call.held, response |-> response,
                         top |-> call.top,
                         after |-> IF applied = None THEN None ELSE Some(applied[1].top)])
    /\ UNCHANGED <<validationVars, componentVars>>
    /\ op' = None
    /\ UNCHANGED <<criteriaVars, selectedList, timer>>

\* A continuation that would drop the response of a request whose top is no longer
\* the store's.
ResolveDropsStale(call, response) ==
    /\ BagIn(call, inflight)
    /\ Len(OrEmpty(MergedList(call.isScroll, list, response))) <= MaxListLen
    /\ pendingCount' = pendingCount - 1
    /\ IF call.top = top
       THEN /\ facets' = response.facets
            /\ list' = OrEmpty(MergedList(call.isScroll, list, response))
            /\ groups' = OrEmpty(response.groups)
            /\ serverCount' = response.totalCount
       ELSE UNCHANGED resultVars
    /\ inflight' = inflight (-) SetToBag({call})
    /\ called' = None
    /\ applied' = Some([isScroll |-> call.isScroll, held |-> call.held, response |-> response,
                         top |-> call.top,
                         after |-> IF applied = None THEN None ELSE Some(applied[1].top)])
    /\ UNCHANGED <<validationVars, componentVars>>
    /\ op' = None
    /\ UNCHANGED <<criteriaVars, selectedList, timer>>

\* The service answers the outstanding call `call` with `response` and the
\* rest of search() runs.
Resolve(call, response) ==
    /\ BagIn(call, inflight)
    /\ Len(OrEmpty(MergedList(call.isScroll, list, response))) <= MaxListLen
    /\ pendingCount' = pendingCount - 1
    /\ facets' = response.facets
    /\ list' = OrEmpty(MergedList(call.isScroll, list, response))
    /\ groups' = OrEmpty(response.groups)
    /\ serverCount' = response.totalCount
    /\ inflight' = inflight (-) SetToBag({call})
    /\ called' = None
    /\ applied' = Some([isScroll |-> call.isScroll, held |-> call.held, response |-> response,
                         top |-> call.top,
                         after |-> IF applied = None THEN None ELSE Some(applied[1].top)])
    /\ UNCHANGED <<validationVars, componentVars>>
    /\ op' = None
    /\ UNCHANGED <<criteriaVars, selectedList, timer>>

\* A rejection that would give pendingCount back.
RejectDecrements(call) ==
    /\ BagIn(call, inflight)
    /\ pendingCount - BagCardinality(inflight) < MaxRejected
    /\ inflight' = inflight (-) SetToBag({call})
    /\ pendingCount' = pendingCount - 1
    /\ called' = None
    /\ applied' = None
    /\ UNCHANGED <<validationVars, componentVars>>
    /\ op' = <<"rejected", call>>
    /\ UNCHANGED <<criteriaVars, resultVars, selectedList, timer>>

\* The service rejects the outstanding call `call`: `await this.service(data)`
\* throws, the rest of search() does not run and the promise search() returned
\* is rejected.
Reject(call) ==
    /\ BagIn(call, inflight)
    /\ pendingCount - BagCardinality(inflight) < MaxRejected
    /\ inflight' = inflight (-) SetToBag({call})
    /\ called' = None
    /\ applied' = None
    /\ UNCHANGED <<validationVars, componentVars>>
    /\ op' = <<"rejected", call>>
    /\ UNCHANGED <<criteriaVars, resultVars, pendingCount, selectedList, timer>>

\* -------------------------------------------------- results and selection
\* clear() that leaves serverCount as it is.
ClearKeepsServerCount ==
    /\ serverCount' = serverCount
    /\ facets' = <<>>
    /\ list' = <<>>
    /\ groups' = <<>>
    /\ called' = None
    /\ applied' = None
    /\ UNCHANGED <<validationVars, componentVars>>
    /\ op' = <<"clear", CurrentCount(list, groups)>>
    /\ UNCHANGED <<criteriaVars, pendingCount, selectedList, timer, inflight>>

\* clear()
Clear ==
    /\ serverCount' = 0
    /\ facets' = <<>>
    /\ list' = <<>>
    /\ groups' = <<>>
    /\ called' = None
    /\ applied' = None
    /\ UNCHANGED <<validationVars, componentVars>>
    /\ op' = <<"clear", CurrentCount(list, groups)>>
    /\ UNCHANGED <<criteriaVars, pendingCount, selectedList, timer, inflight>>

RECURSIVE Remove(_, _)
\* IObservableArray.remove(item): the first occurrence of item goes.
Remove(s, item) ==
    IF s = <<>> THEN <<>>
    ELSE IF Head(s) = item THEN Tail(s)
    ELSE <<Head(s)>> \o Remove(Tail(s), item)

\* toggle(item) of the list store, for an item of the results
Toggle(item) ==
    /\ item \in Range(FlatResultList(list, groups))
    /\ selectedList' = IF item \in SelectedItems(selectedList)
                       THEN Remove(selectedList, item)
                       ELSE Append(selectedList, item)
    /\ called' = None
    /\ applied' = None
    /\ UNCHANGED <<validationVars, componentVars>>
    /\ op' = None
    /\ UNCHANGED <<criteriaVars, resultVars, pendingCount, timer, inflight>>

\* toggleAll() that looks at the list only, not at the groups.
ToggleAllOfList ==
    /\ selectedList' = IF Cardinality(SelectedItems(selectedList)) = Len(list)
                       THEN <<>>
                       ELSE list
    /\ called' = None
    /\ applied' = None
    /\ UNCHANGED <<validationVars, componentVars>>
    /\ op' = <<"toggleAll", selectedList>>
    /\ UNCHANGED <<criteriaVars, resultVars, pendingCount, timer, inflight>>

\* toggleAll()
ToggleAll ==
    /\ selectedList' = IF Cardinality(SelectedItems(selectedList)) = CurrentCount(list, groups)
                       THEN <<>>
                       ELSE FlatResultList(list, groups)
    /\ called' = None
    /\ applied' = None
    /\ UNCHANGED <<validationVars, componentVars>>
    /\ op' = <<"toggleAll", selectedList>>
    /\ UNCHANGED <<criteriaVars, resultVars, pendingCount, timer, inflight>>

\* The list of the group view of groupCode.
GroupList(grps, groupCode) ==
    LET found == {i \in DOMAIN grps : grps[i].code = groupCode}
    IN  IF found = {} THEN <<>>
        ELSE grps[CHOOSE i \in found : \A j \in found : i <= j].list

RECURSIVE RemoveEach(_, _)
\* For each item of `items` in turn, remove it from s if s holds it.
RemoveEach(s, items) ==
    IF items = <<>> THEN s
    ELSE RemoveEach(IF Head(items) \in Range(s) THEN Remove(s, Head(items)) ELSE s, Tail(items))

\* toggleAll() of getSearchGroupStore(groupCode)
GroupToggleAll(groupCode) ==
    /\ LET glist == GroupList(groups, groupCode)
           areAllItemsIn == \A i \in DOMAIN glist : glist[i] \in SelectedItems(selectedList)
           removed == RemoveEach(selectedList, glist)
       IN  selectedList' = IF ~areAllItemsIn THEN removed \o glist ELSE removed
    /\ called' = None
    /\ applied' = None
    /\ UNCHANGED <<validationVars, componentVars>>
    /\ op' = <<"groupToggleAll", groupCode, selectedList>>
    /\ UNCHANGED <<criteriaVars, resultVars, pendingCount, timer, inflight>>

\* totalCount of the group view of groupCode, read only when the group is
\* among the groups.
GroupTotalCount(grps, groupCode) ==
    LET found == {i \in DOMAIN grps : grps[i].code = groupCode}
    IN  grps[CHOOSE i \in found : \A j \in found : i <= j].totalCount

\* selectedItems of the group view: the selected items found in its list.
GroupSelectedItems(sel, grps, groupCode) ==
    {x \in Range(sel) : x \in Range(GroupList(grps, groupCode))}

\* selectionStatus of the group view
GroupSelectionStatus(sel, grps, groupCode) ==
    IF Cardinality(GroupSelectedItems(sel, grps, groupCode)) = 0 THEN "none"
    ELSE IF Cardinality(GroupSelectedItems(sel, grps, groupCode)) = GroupTotalCount(grps, groupCode)
         THEN "selected"
         ELSE "partial"

\* ------------------------------------------------------------ the service
Min(a, b) == IF a <= b THEN a ELSE b

\* The matches after the first `skip`, `count` of them at most.
Page(skip, count) == SubSeq(ServerList, skip + 1, Min(skip + count, MaxItem))

Group(code, items, total) == [code |-> code, list |-> items, totalCount |-> total]

\* The matches in groups: the first one in group "a", the others in group
\* "b", which has one more match on the server than it returns.
Grouping == << Group("a", Page(0, 1), 1), Group("b", Page(1, MaxItem), MaxItem) >>

Facet(code) == [code |-> code, label |-> code]

\* What the service may answer to a request of `skip` and `top`: the page as
\* a list, the groups, neither, or both.
Responses(skip, count) ==
    { [list |-> Some(Page(skip, count)), groups |-> None, facets |-> <<Facet("g")>>, totalCount |-> MaxItem],
      [list |-> None, groups |-> Some(Grouping), facets |-> <<Facet("g"), Facet("h")>>, totalCount |-> MaxItem + 1],
      [list |-> None, groups |-> None, facets |-> <<>>, totalCount |-> 0],
      [list |-> Some(Page(skip, count)), groups |-> Some(SubSeq(Grouping, 1, 1)), facets |-> <<Facet("h")>>, totalCount |-> MaxItem] }

GroupCodes == {"a", "b"}

\* The service answers an outstanding call.
Answer ==
    \E call \in BagToSet(inflight) :
        \E r \in Responses(call.skip, call.top) : Resolve(call, r)

\* The service answers an outstanding call with a list.
AnswerList ==
    \E call \in BagToSet(inflight) :
        \E r \in Responses(call.skip, call.top) : r.groups = None /\ r.list # None /\ Resolve(call, r)

\* ------------------------------------------------------------ ListSelection
\* The keys idField gives to the items a list can show; an item is its key.
SelKeys == {1, 2}

\* props.selectionStatus: absent, or one of the three hints.
SelectionStatuses == {None, Some("none"), Some("partial"), Some("selected")}

\* props.values: absent, or an array of items.
SelectionValues == {None} \cup {Some(s) : s \in {<<>>, <<1>>, <<2>>, <<1, 2>>}}

\* The props a ListSelection can be given; only an array can be an observable one.
SelectionProps ==
    {p \in [selectionStatus : SelectionStatuses, values : SelectionValues, observable : BOOLEAN] :
        p.observable => p.values # None}

\* The keys of the items of an optional array.
Supplied(vals) == IF vals = None THEN {} ELSE Range(vals[1])

\* The item map the field initialiser builds from the props of the constructor.
ItemsOfConstructor(p) == [k \in Supplied(p.values) |-> p.selectionStatus = Some("selected")]

\* updateItems that would forget the items it is not given.
UpdateItemsOfValues(map, hint, vals, status) ==
    [k \in Supplied(vals) |->
        IF k \in DOMAIN map /\ hint = Some("partial") THEN map[k] ELSE status = Some("selected")]

\* updateItems({selectionStatus, values}) on the item map `map`: `hint` and `vals` are
\* the argument's selectionStatus and values, `status` is this.props.selectionStatus,
\* which the new entries are seeded with.
UpdateItems(map, hint, vals, status) ==
    [k \in DOMAIN map \cup Supplied(vals) |->
        IF k \in Supplied(vals) /\ ~(k \in DOMAIN map /\ hint = Some("partial"))
        THEN status = Some("selected")
        ELSE map[k]]

\* getSelectedItems(): the items of the map that are selected.
GetSelectedItems(map) == {k \in DOMAIN map : map[k]}

\* The parent renders the component with new props: componentWillReceiveProps(next)
\* runs while this.props still holds the previous props, then this.props becomes next.
ComponentWillReceiveProps(next) ==
    /\ next # selProps
    /\ IF ~selProps.observable
       THEN /\ selItems' = UpdateItems(selItems, next.selectionStatus, next.values, selProps.selectionStatus)
            /\ reconciled' = Some([selectionStatus |-> next.selectionStatus, values |-> next.values])
       ELSE /\ selItems' = selItems
            /\ reconciled' = None
    /\ selProps' = next
    /\ UNCHANGED <<storeVars, validationVars, autocompleteVars>>

\* An observable that render() reads has changed, possibly the observable array of
\* values itself, which then holds `content`: componentWillReact().
ComponentWillReact(content) ==
    /\ selProps.observable
    /\ selProps' = [selProps EXCEPT !.values = Some(content)]
    /\ selItems' = UpdateItems(selItems, selProps.selectionStatus, Some(content), selProps.selectionStatus)
    /\ reconciled' = Some([selectionStatus |-> selProps.selectionStatus, values |-> Some(content)])
    /\ UNCHANGED <<storeVars, validationVars, autocompleteVars>>

\* handleLineSelection(item, selected): a line of the list is ticked or unticked.
HandleLineSelection(item, selected) ==
    /\ item \in Supplied(selProps.values)
    /\ selItems' = [k \in DOMAIN selItems \cup {item} |-> IF k = item THEN selected ELSE selItems[k]]
    /\ reconciled' = None
    /\ UNCHANGED <<selProps, storeVars, validationVars, autocompleteVars>>

\* ------------------------------------------------------------- Autocomplete
\* The texts typed in the field, as sequences of characters.
AcTexts == {<<>>, <<" ">>, <<"a">>, <<" ", "a">>, <<"b">>}

\* text.trim(): the text without its leading and trailing spaces.
RECURSIVE TrimStart(_)
TrimStart(text) ==
    IF text # <<>> /\ Head(text) = " " THEN TrimStart(Tail(text)) ELSE text

RECURSIVE TrimEnd(_)
TrimEnd(text) ==
    IF text # <<>> /\ text[Len(text)] = " " THEN TrimEnd(SubSeq(text, 1, Len(text) - 1)) ELSE text

Trim(text) == TrimEnd(TrimStart(text))

\* What querySearcher can resolve with for the query q: nothing, a result without
\* data, or a result with a list of {key, label}, where a key may come twice.
AcResults(q) ==
    {None, Some([data |-> None])}
        \cup {Some([data |-> Some(d)]) :
                d \in {<<>>, <<[key |-> q, label |-> "l"]>>,
                       <<[key |-> q, label |-> "l"], [key |-> q, label |-> "m"]>>}}

\* result && result.data && result.data.reduce(...) || {}: key |-> label, the last
\* label of a key winning.
AcValuesOf(result) ==
    IF result = None \/ result[1].data = None THEN <<>>
    ELSE LET data == result[1].data[1]
             last(k) == CHOOSE i \in 1..Len(data) :
                            /\ data[i].key = k
                            /\ \A j \in (i + 1)..Len(data) : data[j].key # k
         IN  [k \in {data[i].key : i \in 1..Len(data)} |-> data[last(k)].label]

\* search(text) up to its await.
AcSearch(text) ==
    /\ IF text # <<>> /\ Len(Trim(text)) > 0
       THEN /\ BagCardinality(acInflight) < MaxPending
            /\ isLoading' = TRUE
            /\ acInflight' = acInflight (+) SetToBag({Trim(text)})
       ELSE UNCHANGED <<isLoading, acInflight>>
    /\ acValues' = acValues
    /\ acOp' = <<"search", text>>

\* onQueryChange(text): the user types in the field.
OnQueryChange(text) ==
    /\ text # acQuery
    /\ acQuery' = text
    /\ acTimer' = Some(text)
    /\ acOp' = None
    /\ UNCHANGED <<isLoading, acValues, acInflight>>
    /\ UNCHANGED <<storeVars, validationVars, selectionVars>>

\* The delay of debouncedSearch runs out: search() is called with the last text.
DebouncedSearch ==
    /\ acTimer # None
    /\ AcSearch(acTimer[1])
    /\ acTimer' = None
    /\ UNCHANGED acQuery
    /\ UNCHANGED <<storeVars, validationVars, selectionVars>>

\* querySearcher resolves a call with `result`: search() runs on after its await.
AcResolve(q, result) ==
    /\ BagIn(q, acInflight)
    /\ acInflight' = acInflight (-) SetToBag({q})
    /\ acValues' = AcValuesOf(result)
    /\ isLoading' = FALSE
    /\ acOp' = <<"resolved", q, result>>
    /\ UNCHANGED <<acQuery, acTimer>>
    /\ UNCHANGED <<storeVars, validationVars, selectionVars>>

\* --------------------------------------------------------- specifications
\* The criteria of the first reaction, which relaunches the search at once.
NextImmediate ==
    \/ \E v \in BOOLEAN : SetBlockSearch(v)
    \/ \E v \in GroupingKeys : SetGroupingKey(v)
    \/ \E v \in FacetSelections : SetSelectedFacets(v)
    \/ \E v \in SortAscs : SetSortAsc(v)
    \/ \E v \in SortBys : SetSortBy(v)
    \/ \E f \in CritFields, v \in CritValues : SetCriteria(f, v)
    \/ AnswerList

\* The store of a constructor given no debounceCriteria.
InitImmediate == Init /\ debounceCriteria = FALSE

SpecImmediate == InitImmediate /\ [][NextImmediate]_vars

\* The criteria of the second reaction and those of no reaction, and the
\* delay of the debounced search.
NextDebounce ==
    \/ \E v \in BOOLEAN : SetBlockSearch(v)
    \/ \E v \in Queries : SetQuery(v)
    \/ \E v \in Tops : SetTop(v)
    \/ \E f \in CritFields, v \in CritValues : SetCriteria(f, v)
    \/ DebounceFire
    \/ AnswerList

SpecDebounce == Init /\ [][NextDebounce]_vars

\* Every way search() is called: by either reaction and by the application.
NextBlock ==
    \/ \E v \in BOOLEAN : SetBlockSearch(v)
    \/ \E v \in GroupingKeys : SetGroupingKey(v)
    \/ \E v \in {Some(""), Some("a")} : SetQuery(v)
    \/ \E isScroll \in BOOLEAN : Search(isScroll)
    \/ DebounceFire
    \/ AnswerList

SpecBlock == InitImmediate /\ [][NextBlock]_vars

\* The results and the selection, over all the answers of the service.
NextResults ==
    \/ \E v \in BOOLEAN : SetBlockSearch(v)
    \/ \E isScroll \in BOOLEAN : Search(isScroll)
    \/ Answer
    \/ Clear
    \/ \E item \in Items : Toggle(item)
    \/ ToggleAll
    \/ \E g \in GroupCodes : GroupToggleAll(g)

SpecResults == InitImmediate /\ [][NextResults]_vars

\* The fields of the request, each assigned on its own, the query made
\* undefined too, and the results cleared.
NextRequest ==
    \/ \E v \in Queries : SetQuery(v)
    \/ \E v \in GroupingKeys : SetGroupingKey(v)
    \/ \E v \in FacetSelections : SetSelectedFacets(v)
    \/ \E v \in SortBys : SetSortBy(v)
    \/ \E v \in Tops : SetTop(v)
    \/ DebounceFire
    \/ AnswerList
    \/ Clear

SpecRequest == InitImmediate /\ [][NextRequest]_vars

\* validate() on every value and every list of validators, and on no list.
InitValidate ==
    /\ InitStore
    /\ debounceCriteria = FALSE
    /\ property \in PropertyValues
    /\ validators \in {None} \cup {Some(vs) : vs \in ValidatorLists}
    /\ validStat = None
    /\ InitComponents

NextValidate == CallValidate

SpecValidate == InitValidate /\ [][NextValidate]_vars

\* Several criteria updated at once, on a store that is blocked or not.
NextProperties ==
    \/ \E v \in BOOLEAN : SetBlockSearch(v)
    \/ \E has \in PropKeySets : \E props \in PropsOf(has) : SetProperties(props)
    \/ DebounceFire

SpecProperties == InitImmediate /\ [][NextProperties]_vars

\* The ListSelection component: new props, changes of observables, ticked lines.
InitSelection ==
    /\ InitStore
    /\ debounceCriteria = FALSE
    /\ property = None
    /\ validators = None
    /\ validStat = None
    /\ selProps \in SelectionProps
    /\ selItems = ItemsOfConstructor(selProps)
    /\ reconciled = None
    /\ isLoading = FALSE
    /\ acQuery = <<>>
    /\ acValues = <<>>
    /\ acTimer = None
    /\ acInflight = EmptyBag
    /\ acOp = None

NextSelection ==
    \/ \E next \in SelectionProps : ComponentWillReceiveProps(next)
    \/ \E content \in {<<>>, <<1>>, <<2>>, <<1, 2>>} : ComponentWillReact(content)
    \/ \E item \in SelKeys : \E selected \in BOOLEAN : HandleLineSelection(item, selected)

SpecSelection == InitSelection /\ [][NextSelection]_vars

\* The Autocomplete component: typing, the debounced search, the answers.
NextAutocomplete ==
    \/ \E text \in AcTexts : OnQueryChange(text)
    \/ DebouncedSearch
    \/ \E q \in AcTexts : \E result \in AcResults(q) : AcResolve(q, result)

SpecAutocomplete == InitImmediate /\ [][NextAutocomplete]_vars

\* A service that answers or rejects, and a selection made meanwhile.
NextReject ==
    \/ \E isScroll \in BOOLEAN : Search(isScroll)
    \/ AnswerList
    \/ \E call \in BagToSet(inflight) : Reject(call)
    \/ \E item \in Items : Toggle(item)

SpecReject == InitImmediate /\ [][NextReject]_vars

\* Searches that overlap while top goes from its initial value to the other
\* one, so that a request with the initial top is older than one without;
\* the results may be cleared meanwhile.
NextOverlap ==
    \/ \E v \in Tops \ {1} : SetTop(v)
    \/ Search(FALSE)
    \/ Answer
    \/ Clear

SpecOverlap == InitImmediate /\ [][NextOverlap]_vars

\* Every operation over every input.
Next ==
    \/ NextImmediate
    \/ NextDebounce
    \/ NextBlock
    \/ NextResults
    \/ NextRequest
    \/ NextProperties
    \/ NextValidate
    \/ NextOverlap
    \/ NextReject
    \/ NextSelection
    \/ NextAutocomplete

Spec == Init /\ [][Next]_vars

\* ------------------------------------------------------------------ claims
\* The request of the call of search() made in the last step.
Sent == called # None /\ called[1].data # None
Data == called[1].data[1]

\* A value tracked by the first reaction changes in the step.
ImmediateChange ==
    \/ groupingKey' # groupingKey
    \/ selectedFacets' # selectedFacets
    \/ sortAsc' # sortAsc
    \/ sortBy' # sortBy
    \/ ~debounceCriteria /\ FlatCriteria(criteria') # FlatCriteria(criteria)
    \/ blockSearch /\ ~blockSearch'

\* C1: while blockSearch is false, a change of groupingKey, selectedFacets,
\* sortAsc, sortBy or of the flattened criteria (not debounced), and the
\* return of blockSearch to false, send a request in the same step, and the
\* request carries the values the criteria have after the step.
C1_ImmediateSearch ==
    [][ (~blockSearch' /\ ImmediateChange) =>
            /\ called' # None
            /\ called'[1].by = "reaction"
            /\ called'[1].data # None
            /\ pendingCount' = pendingCount + 1
            /\ called'[1].data[1].group = (IF groupingKey' = None THEN "" ELSE groupingKey'[1])
            /\ called'[1].data[1].facets = selectedFacets'
            /\ called'[1].data[1].sortDesc = (sortAsc' = Some(FALSE))
            /\ called'[1].data[1].sortFieldName = sortBy'
            /\ \A f \in CritFields :
                 IF criteria'[f] \in {Some("x"), Null}
                 THEN f \in DOMAIN called'[1].data[1].criteria /\ called'[1].data[1].criteria[f] = criteria'[f]
                 ELSE f \notin DOMAIN called'[1].data[1].criteria ]_vars

\* A reaction has just sent a request with a group, a sort field, a sort
\* direction, a facet and a custom criterion, all set by earlier steps.
C1_Witness ==
    /\ Sent
    /\ called[1].by = "reaction"
    /\ Data.group = "g"
    /\ Data.sortFieldName = Some("s")
    /\ Data.sortDesc
    /\ Data.facets = {<<"f", "v">>}
    /\ "c" \in DOMAIN Data.criteria

\* C2 as amended: the debounced reaction calls search() once for all the
\* query changes that waited for the delay, after the last of them; the call
\* sends one request, with the last query set ("*" for the empty one), when
\* blockSearch is false and none when it is true.
C2_DebouncedOnce ==
    /\ [](called # None /\ called[1].by = "debounce" =>
            /\ timer = 0
            /\ called[1].calls >= 1
            /\ ~called[1].isScroll
            /\ blockSearch => called[1].data = None
            /\ ~blockSearch =>
                 /\ called[1].data # None
                 /\ Data.criteria["query"] = (IF query \in {None, Some("")} THEN "*" ELSE query[1]))
    /\ [][ /\ query' # query =>
                /\ timer' = timer + 1
                /\ called' # None => called'[1].by # "debounce"
           /\ (called' # None /\ called'[1].by = "debounce") =>
                /\ timer > 0
                /\ called'[1].calls = timer
                /\ query' = query
                /\ ~blockSearch => pendingCount' = pendingCount + 1 ]_vars

\* The debounced search has just run for two query changes and sent the last
\* value.
C2_Witness ==
    /\ Sent
    /\ called[1].by = "debounce"
    /\ called[1].calls = 2
    /\ Data.criteria["query"] = "b"

\* C2 as claimed: every run of the debounced search sends a request with the
\* last query set.
C2_Original ==
    (called # None /\ called[1].by = "debounce") =>
        /\ called[1].data # None
        /\ Data.criteria["query"] = (IF query \in {None, Some("")} THEN "*" ELSE query[1])

\* C3: with blockSearch true, a change of a criterion, the end of the
\* debounce delay and a call of search(isScroll) send no request and leave
\* pendingCount, the selection and the result containers as they are.
C3_BlockedNoRequest ==
    /\ [](blockSearch /\ called # None => called[1].data = None)
    /\ [][ (blockSearch' /\ (called' # None \/ criteriaVars' # criteriaVars \/ timer' < timer)) =>
                UNCHANGED <<pendingCount, selectedList, resultVars, inflight>> ]_vars

\* search(true) has just been called on a store that is blocked, holds
\* results and waits for an answer.
C3_Witness ==
    /\ blockSearch
    /\ called # None
    /\ called[1].by = "direct"
    /\ called[1].isScroll
    /\ called[1].data = None
    /\ Len(list) > 0
    /\ pendingCount > 0

\* C4: the request of search(true) skips the length of the list, and once
\* its response is applied the list is the list held at the request followed
\* by the list of the response.
C4_ScrollAppends ==
    /\ (Sent /\ called[1].isScroll) => Data.skip = Len(list)
    /\ (applied # None /\ applied[1].isScroll) =>
            list = applied[1].held[1] \o OrEmpty(applied[1].response.list)

\* C5: the request of search(false) skips nothing, and once its response is
\* applied list, groups, facets and serverCount are those of the response.
C5_ReplaceResults ==
    /\ (Sent /\ ~called[1].isScroll) => Data.skip = 0
    /\ (applied # None /\ ~applied[1].isScroll) =>
            /\ list = OrEmpty(applied[1].response.list)
            /\ groups = OrEmpty(applied[1].response.groups)
            /\ facets = applied[1].response.facets
            /\ serverCount = applied[1].response.totalCount

\* The response of a search(false) has just replaced the results with its
\* groups while another call is outstanding.
C5_Witness ==
    /\ applied # None
    /\ ~applied[1].isScroll
    /\ applied[1].response.list = None
    /\ groups = Grouping
    /\ list = <<>>
    /\ pendingCount > 0

\* C6: when no search is in flight, every selected item is among the
\* results of flatResultList.
C6_SelectionWithinResults ==
    pendingCount = 0 => Range(selectedList) \subseteq Range(FlatResultList(list, groups))

\* C7: whenever search() sends a request, the selection is empty.
C7_SelectionCleared ==
    Sent => selectedList = <<>>

\* search(true) has just sent a request from a store with two selected
\* items.
C7_Witness ==
    /\ Sent
    /\ called[1].isScroll
    /\ called[1].selected = 2
    /\ selectedList = <<>>

\* C8: pendingCount is the number of the requests sent and not answered; it
\* is never negative and is positive exactly when a request is outstanding.
C8_PendingCount ==
    /\ pendingCount = BagCardinality(inflight)
    /\ pendingCount >= 0
    /\ (pendingCount > 0) = (BagToSet(inflight) # {})

\* Two searches overlap.
C8_Overlap == pendingCount = 2

\* C9: with blockSearch false, every change of query, groupingKey,
\* selectedFacets, sortAsc, sortBy or top sends a request, now or once the
\* debounce delay has run out.
C9_EveryCriterion ==
    [][ (~blockSearch /\ ~blockSearch' /\
         (\/ query' # query
          \/ groupingKey' # groupingKey
          \/ selectedFacets' # selectedFacets
          \/ sortAsc' # sortAsc
          \/ sortBy' # sortBy
          \/ top' # top)) =>
            \/ called' # None /\ called'[1].data # None
            \/ timer' > timer ]_vars

C11_RequestFields ==
    Sent =>
        /\ query \notin {None, Some("")} => Data.criteria["query"] = query[1]
        /\ query \in {None, Some("")} => Data.criteria["query"] = "*"
        /\ Data.criteria["query"] # ""
        /\ query # Some("*")
        /\ groupingKey # None => Data.group = groupingKey[1]
        /\ groupingKey = None => Data.group = ""
        /\ Data.facets = selectedFacets
        /\ Data.sortFieldName = sortBy
        /\ Data.top = top

\* A request has just left a store whose query is undefined and whose other
\* criteria are all set.
C11_Witness ==
    /\ Sent
    /\ query = None
    /\ Data.criteria["query"] = "*"
    /\ Data.group = "g"
    /\ Data.facets = {<<"f", "v">>}
    /\ Data.sortFieldName = Some("s")
    /\ Data.top = 2

\* The object given to the call of setProperties made in the last step.
IsSetProperties(o) == o # None /\ o[1] = "setProperties"

\* C12: setProperties(props) gives groupingKey and sortBy the value of props
\* whenever props has the key, undefined included; gives query, top and
\* selectedFacets the value of props only when that value is truthy; and
\* leaves every field whose key props has not, blockSearch and the custom
\* criteria as they are.
C12_SetProperties ==
    [][ IsSetProperties(op') =>
            /\ "groupingKey" \in op'[2].has => groupingKey' = op'[2].groupingKey
            /\ "groupingKey" \notin op'[2].has => groupingKey' = groupingKey
            /\ "sortBy" \in op'[2].has => sortBy' = op'[2].sortBy
            /\ "sortBy" \notin op'[2].has => sortBy' = sortBy
            /\ op'[2].query \in {Some("a"), Some("b")} => query' = op'[2].query
            /\ op'[2].query \in {None, Some("")} => query' = query
            /\ op'[2].top \in {Some(1), Some(2)} => top' = op'[2].top[1]
            /\ op'[2].top \in {None, Some(0)} => top' = top
            /\ op'[2].selectedFacets # None => selectedFacets' = op'[2].selectedFacets[1]
            /\ op'[2].selectedFacets = None => selectedFacets' = selectedFacets
            /\ "sortAsc" \notin op'[2].has => sortAsc' = sortAsc
            /\ UNCHANGED <<blockSearch, criteria>> ]_vars

\* setProperties({sortBy: undefined, query: ""}) has just cleared sortBy,
\* which made the first reaction call search(), and left the query "a".
C12_Witness ==
    /\ IsSetProperties(op)
    /\ op[2].has = {"sortBy", "query"}
    /\ op[2].sortBy = None
    /\ op[2].query = Some("")
    /\ called # None
    /\ called[1].by = "reaction"
    /\ sortBy = None
    /\ query = Some("a")

\* C13 as amended: setProperties gives sortAsc the value of props whenever
\* that value is not undefined, false included, and leaves it as it is
\* otherwise.
C13_SortAscDefined ==
    [][ IsSetProperties(op') =>
            /\ op'[2].sortAsc # None => sortAsc' = op'[2].sortAsc
            /\ op'[2].sortAsc = None => sortAsc' = sortAsc ]_vars

\* setProperties({sortAsc: false}) has just made sortAsc false, which made
\* the first reaction call search().
C13_Witness ==
    /\ IsSetProperties(op)
    /\ op[2].has = {"sortAsc"}
    /\ op[2].sortAsc = Some(FALSE)
    /\ sortAsc = Some(FALSE)
    /\ called # None
    /\ called[1].by = "reaction"

\* C13 as claimed: setProperties changes sortAsc only when the value of props
\* is truthy.
C13_Original ==
    [][ (IsSetProperties(op') /\ op'[2].sortAsc # Some(TRUE)) => sortAsc' = sortAsc ]_vars

\* C14: clear() sets serverCount to 0 and empties facets, list and groups;
\* it leaves query, groupingKey, selectedFacets, sortBy, sortAsc, top, the
\* custom criteria, blockSearch and pendingCount as they are, and it calls no
\* search and sends no request.
C14_Clear ==
    [][ (op' # None /\ op'[1] = "clear") =>
            /\ serverCount' = 0
            /\ facets' = <<>>
            /\ list' = <<>>
            /\ groups' = <<>>
            /\ UNCHANGED <<query, groupingKey, selectedFacets, sortBy, sortAsc, top, criteria, blockSearch>>
            /\ pendingCount' = pendingCount
            /\ called' = None
            /\ inflight' = inflight
            /\ timer' = timer ]_vars

\* clear() has just emptied a list of two items in a store whose criteria are
\* set, while a request is outstanding and a debounced search waits.
C14_Witness ==
    /\ op # None
    /\ op[1] = "clear"
    /\ op[2] = 2
    /\ list = <<>>
    /\ serverCount = 0
    /\ facets = <<>>
    /\ query = Some("a")
    /\ groupingKey = Some("g")
    /\ sortBy = Some("s")
    /\ top = 2
    /\ pendingCount = 1
    /\ timer = 1

\* The call of toggleAll() of the store made in the last step.
IsToggleAll(o) == o # None /\ o[1] = "toggleAll"

\* C15: toggleAll() empties the selection when the number of selected items
\* is currentCount, the length of flatResultList, and makes the selection the
\* items of flatResultList otherwise; after it the selection is empty or the
\* whole of the results, flat or grouped.
C15_ToggleAll ==
    /\ [][ IsToggleAll(op') =>
              /\ Cardinality(Range(selectedList)) = Len(FlatResultList(list, groups))
                    => selectedList' = <<>>
              /\ Cardinality(Range(selectedList)) # Len(FlatResultList(list, groups))
                    => selectedList' = FlatResultList(list, groups)
              /\ UNCHANGED <<list, groups>> ]_vars
    /\ [](IsToggleAll(op) =>
              \/ selectedList = <<>>
              \/ /\ selectedList = FlatResultList(list, groups)
                 /\ Len(selectedList) = CurrentCount(list, groups))

\* toggleAll() has just selected the two items of two groups, of which one
\* was selected.
C15_Witness ==
    /\ IsToggleAll(op)
    /\ Len(op[2]) = 1
    /\ Len(groups) = 2
    /\ selectedList = <<1, 2>>

\* The call of toggleAll() of a group view made in the last step.
IsGroupToggleAll(o) == o # None /\ o[1] = "groupToggleAll"

\* How many times s holds x.
Occurrences(s, x) == Cardinality({i \in DOMAIN s : s[i] = x})

\* C16: toggleAll() of the view of group g deselects every item of g's list
\* when all of them were selected, and otherwise leaves every one of them
\* selected exactly once; an item of another group is selected after it
\* exactly when it was before.
C16_GroupToggleAll ==
    [][ IsGroupToggleAll(op') =>
            LET glist == GroupList(groups, op'[2])
                others == Range(FlatResultList(list, groups)) \ Range(glist)
            IN  /\ (\A x \in Range(glist) : x \in Range(selectedList))
                      => \A x \in Range(glist) : x \notin Range(selectedList')
                /\ (\E x \in Range(glist) : x \notin Range(selectedList))
                      => \A x \in Range(glist) : Occurrences(selectedList', x) = 1
                /\ \A x \in others : (x \in Range(selectedList')) = (x \in Range(selectedList)) ]_vars

\* C17: in every state, for every group g, the view of g has as selectedItems
\* the selected items that are in g's list, and as selectionStatus "none"
\* when no item of g's list is selected, "selected" when every item of g's
\* list is selected, "partial" otherwise.
C17_GroupView ==
    \A g \in GroupCodes :
        LET glist == GroupList(groups, g)
            chosen == Range(selectedList) \cap Range(glist)
        IN  /\ GroupSelectedItems(selectedList, groups, g) = chosen
            /\ GroupSelectionStatus(selectedList, groups, g) =
                    (IF chosen = {} THEN "none"
                     ELSE IF Range(glist) \subseteq Range(selectedList) THEN "selected"
                     ELSE "partial")

\* The custom-criteria fields that are neither "" nor undefined and whose
\* entry of criteriaErrors is false.
FilledAndValid(crit) ==
    {f \in CritFields : crit[f] # Some("") /\ crit[f] # None /\ ~CriteriaErrors(crit)[f]}

\* C18: in every state flatCriteria holds exactly the fields of the custom
\* criteria that are neither "" nor undefined and that criteriaErrors does
\* not mark, with their values; every request carries these fields and no
\* other beside query; and a change of the custom criteria that changes
\* flatCriteria calls search or schedules the debounced search, whether
\* a field is invalid or not.
C18_FlatCriteria ==
    /\ [](DOMAIN FlatCriteria(criteria) = FilledAndValid(criteria))
    /\ [](\A f \in FilledAndValid(criteria) : FlatCriteria(criteria)[f] = criteria[f])
    /\ [](Sent =>
            /\ DOMAIN Data.criteria = FilledAndValid(criteria) \cup {"query"}
            /\ \A f \in CritFields :
                  (criteria[f] \in {None, Some(""), Some("xx")}) => f \notin DOMAIN Data.criteria
            /\ \A f \in FilledAndValid(criteria) : Data.criteria[f] = criteria[f])
    /\ [][ (~blockSearch' /\ FilledAndValid(criteria') # FilledAndValid(criteria)) =>
              IF debounceCriteria
              THEN timer' = timer + 1
              ELSE called' # None /\ called'[1].data # None ]_vars

\* A request has just left without the field "c", whose value is too long
\* for its validator, right after the value was set.
C18_Witness ==
    /\ Sent
    /\ called[1].by = "reaction"
    /\ criteria["c"] = Some("xx")
    /\ CriteriaErrors(criteria)["c"]
    /\ "c" \notin DOMAIN Data.criteria
    /\ ~debounceCriteria

\* C19 as amended: for every field of the custom criteria, criteriaErrors is
\* true exactly when the field's value is neither null nor undefined and
\* validate() with the field's validators yields at least one error on it;
\* for null and for undefined it is false, whatever validate() yields.
C19_CriteriaErrors ==
    \A f \in CritFields :
        /\ criteria[f] \in {None, Null} => CriteriaErrors(criteria)[f] = FALSE
        /\ criteria[f] \notin {None, Null} =>
              CriteriaErrors(criteria)[f] = ~Validate(criteria[f], Some(CritValidators)).isValid
        /\ criteria[f] \in {Some(""), Some("xx")} => CriteriaErrors(criteria)[f] = TRUE
        /\ criteria[f] = Some("x") => CriteriaErrors(criteria)[f] = FALSE

\* The field "c" has been made null, which its validators refuse and
\* criteriaErrors does not mark, and the request has just left with it.
C19_Witness ==
    /\ criteria["c"] = Null
    /\ ~Validate(criteria["c"], Some(CritValidators)).isValid
    /\ ~CriteriaErrors(criteria)["c"]
    /\ Sent
    /\ "c" \in DOMAIN Data.criteria
    /\ Data.criteria["c"] = Null

\* C19 as claimed: for every value of a field, null and undefined included,
\* criteriaErrors is true exactly when validate() yields at least one error.
C19_Original ==
    \A f \in CritFields :
        CriteriaErrors(criteria)[f] = (Len(Validate(criteria[f], Some(CritValidators)).errors) > 0)

\* The validator v refuses the value: a required value that is null,
\* undefined or ""; a string whose length is outside the bounds of the
\* options, null and undefined counting as ""; never for another type.
Fails(value, v) ==
    LET length == IF value \in {None, Null} THEN 0 ELSE Len(value[1])
    IN  CASE v.type = "required" -> v.value /\ value \in {None, Null, Some("")}
          [] v.type = "string" ->
                /\ v.options # None
                /\ \/ v.options[1].minLength # None /\ length < v.options[1].minLength[1]
                   \/ v.options[1].maxLength # None /\ length > v.options[1].maxLength[1]
          [] OTHER -> FALSE

\* The validators of vs that refuse the value, in the order of vs.
Failing(value, vs) == SelectSeq(vs, LAMBDA v : Fails(value, v))

\* C20: validate(property, validators) returns in errors one message for each
\* validator of the list that fails, in the order of the list, and none for a
\* validator that passes or whose type is not known; isValid is true exactly
\* when errors is empty; with no list of validators isValid is true.
C20_Validate ==
    validStat # None =>
        LET vs == IF validators = None THEN <<>> ELSE validators[1]
            failing == Failing(property, vs)
        IN  /\ Len(validStat[1].errors) = Len(failing)
            /\ \A i \in 1..Len(failing) :
                  validStat[1].errors[i] = "domain.validation." \o failing[i].type
            /\ validStat[1].isValid = (validStat[1].errors = <<>>)
            /\ validators = None => validStat[1].isValid
            /\ validStat[1].value = property

\* validate() has just returned two messages, in the order of the two
\* validators, for a value that both refuse.
C20_Witness ==
    /\ validStat # None
    /\ property = Some("")
    /\ validators # None
    /\ Len(validators[1]) = 2
    /\ validators[1][1].type = "required"
    /\ validators[1][2].type = "string"
    /\ validStat[1].errors = <<"domain.validation.required", "domain.validation.string">>
    /\ ~validStat[1].isValid

\* C21: on each reconciliation with a sequence of items and a hint h: when h is
\* "partial", every key already in the map keeps its state and each new key is
\* added unselected; when h is not "partial", the entry of every supplied item
\* is set to selected = (h = "selected"), h being the hint supplied with the
\* sequence.
C21_Reconciliation ==
    [][reconciled' # None =>
        LET h == reconciled'[1].selectionStatus
            supplied == Supplied(reconciled'[1].values)
        IN  IF h = Some("partial")
            THEN /\ \A k \in DOMAIN selItems : k \in DOMAIN selItems' /\ selItems'[k] = selItems[k]
                 /\ \A k \in supplied \ DOMAIN selItems : selItems'[k] = FALSE
            ELSE \A k \in supplied : selItems'[k] = (h = Some("selected"))]_vars

\* C22: without a selectionStatus the component behaves as with "partial": a
\* reconciliation keeps the selected state of every item already in the map.
C22_DefaultPartial ==
    [][(reconciled' # None /\ reconciled'[1].selectionStatus = None) =>
        \A k \in DOMAIN selItems : k \in DOMAIN selItems' /\ selItems'[k] = selItems[k]]_vars

\* C27: no step removes a key of the item map, and a reconciliation leaves the
\* entries of the items it is not given as they are, so that a selected item
\* which is absent from the supplied values is still among getSelectedItems().
C27_KeysOnlyGrow ==
    [][/\ DOMAIN selItems \subseteq DOMAIN selItems'
       /\ reconciled' # None =>
            /\ \A k \in DOMAIN selItems \ Supplied(reconciled'[1].values) : selItems'[k] = selItems[k]
            /\ GetSelectedItems(selItems) \ Supplied(reconciled'[1].values)
                    \subseteq GetSelectedItems(selItems')]_vars

\* A reconciliation has just run with values that lack an item of the map which
\* is selected, and the hint at hand would have unselected it.
C27_Witness ==
    /\ reconciled # None
    /\ selProps.selectionStatus = Some("none")
    /\ \E k \in GetSelectedItems(selItems) : k \notin Supplied(reconciled[1].values)

\* search(text) on an empty or blank text calls no service and leaves isLoading
\* and the values as they are.
AcBlankSearch ==
    (acOp' # None /\ acOp'[1] = "search" /\ Trim(acOp'[2]) = <<>>) =>
        UNCHANGED <<isLoading, acValues, acInflight>>

\* C28: isLoading is true in every state in which a querySearcher call started
\* by search() has not completed and false once none is outstanding, however
\* the searches overlap; a search on an empty or blank query calls no service
\* and leaves isLoading and the values unchanged.
C28_IsLoading ==
    /\ [](isLoading <=> BagCardinality(acInflight) > 0)
    /\ [][AcBlankSearch]_vars

\* C26: a call of validate() modifies neither the property nor a validator or
\* its options, and validating the same input again gives the same result,
\* for every kind of validator, "string" without minLength included.
C26_Stateless ==
    [][validStat' # None =>
        /\ property' = property
        /\ validators' = validators
        /\ Validate(property', validators') = validStat'[1]]_vars

\* The response applied in the step is appended to a list that has items.
Appended ==
    /\ applied' # None
    /\ applied'[1].isScroll
    /\ applied'[1].response.list # None
    /\ applied'[1].response.list[1] # <<>>
    /\ list # <<>>
    /\ list' = list \o applied'[1].response.list[1]

\* C23: every request with a non-empty group has skip = 0, and no response is
\* appended to the list while a grouping key is set or groups is non-empty.
C23_NoGroupedScroll ==
    /\ [](Sent => (Data.group # "" => Data.skip = 0))
    /\ [][Appended => (groupingKey = None /\ groups = <<>>)]_vars

IsRejected(o) == o # None /\ o[1] = "rejected"

\* C25: when a call of the service rejects, the results keep their values, the
\* selection stays as the search left it, and pendingCount is not decremented
\* for the call: from then on it is above the number of outstanding requests,
\* hence above 0 even when none is outstanding.
C25_Rejection ==
    /\ [][IsRejected(op') =>
            /\ UNCHANGED <<facets, list, groups, serverCount>>
            /\ selectedList' = selectedList
            /\ pendingCount' = pendingCount
            /\ pendingCount' > BagCardinality(inflight')]_vars
    /\ [][pendingCount > BagCardinality(inflight) => pendingCount' > BagCardinality(inflight')]_vars
    /\ [](pendingCount >= BagCardinality(inflight))

\* The only outstanding call has been rejected and pendingCount is above 0.
C25_Witness ==
    /\ IsRejected(op)
    /\ inflight = EmptyBag
    /\ pendingCount > 0
    /\ selectedList = <<>>

\* C24: when searches that do not scroll overlap, whatever the order of their
\* responses, each response replaces the results when it resolves, also the
\* response of a request made with older criteria than a request already
\* answered, so that once all have resolved the results are those of the
\* response that resolved last.
C24_LastResponseWins ==
    [][(applied' # None /\ ~applied'[1].isScroll) =>
        /\ list' = OrEmpty(applied'[1].response.list)
        /\ groups' = OrEmpty(applied'[1].response.groups)
        /\ facets' = applied'[1].response.facets
        /\ serverCount' = applied'[1].response.totalCount
        /\ pendingCount' = BagCardinality(inflight')]_vars

\* Two requests overlapped, the one made with top = 2 after the one made with
\* top = 1; the later one was answered first with two items, then the earlier
\* one with one item, which is the list now that both have resolved.
C24_Witness ==
    /\ applied # None
    /\ ~applied[1].isScroll
    /\ applied[1].top = 1
    /\ applied[1].after = Some(2)
    /\ top = 2
    /\ pendingCount = 0
    /\ list = Page(0, 1)
    /\ list # Page(0, 2)

====
